---- MODULE Spec2Model ----
(***************************************************************************)
(* A model of the feed-forward network engine under src/core: the Tensor   *)
(* algebra (tensor.h), the optimizers (optimizers.h), the dense layer      *)
(* (dense_layer.h, activations.h), the losses (loss_functions.h) and the   *)
(* sequential Model (model.h), with the driver's calls (main.cpp).         *)
(*                                                                         *)
(* Numbers.  A C++ float is modelled as a fixed-point integer: the integer *)
(* n stands for the real n / Scale.  Sums and differences are exact; a     *)
(* product or a quotient is rounded toward zero to the next multiple of    *)
(* 1 / Scale.  Float rounding itself is not modelled.                      *)
(***************************************************************************)
EXTENDS Integers, Sequences, FiniteSets, TLC

VARIABLES
    tA,        \* tensor.h: first operand of the algebra call under test
    tB,        \* tensor.h: second operand (a matrix, or its data as a bias vector)
    tY,        \* loss_functions.h: the sparse labels of the loss call under test
    act,       \* activations.h: the Activation object under test
    tOut,      \* tensor.h: the call made and what it returned
    param,     \* optimizers.h: the Parameter objects a caller owns, by identity
    sgd,       \* optimizers.h: the SGDOptimizer instance
    rmsprop,   \* optimizers.h: the RMSPropOptimizer instance
    adam,      \* optimizers.h: the AdamOptimizer instance
    calls,     \* history: step calls made so far, per optimizer and parameter
    lastStep,  \* history: the last step call and the locals it computed
    layer,     \* dense_layer.h: the DenseLayer objects, by name
    model,     \* model.h: the Model object (pointers are the names of the objects)
    lastCall,  \* history: the last call on a layer or the model, its argument and result
    nOps,      \* history: calls made so far on the layers and the model
    aborted    \* "no", or the assert that failed and ended the process (abort)

vars == <<tA, tB, tY, act, tOut, param, sgd, rmsprop, adam, calls, lastStep,
          layer, model, lastCall, nOps, aborted>>

tensorVars == <<tA, tB, tY, act, tOut>>

optVars == <<param, sgd, rmsprop, adam, calls, lastStep>>

netVars == <<layer, model, lastCall, nOps>>

(***************************************************************************)
(* Bounds of the model.                                                    *)
(***************************************************************************)
\* the most rows and the most columns of an operand of the Tensor algebra
MaxDim == 2

\* the most elements of an operand of the Tensor algebra
MaxCells == 6

\* the most optimizer step calls made in one run
MaxSteps == 3

\* the length of the longer of the two Parameter objects
MaxParamLen == 2

\* the most calls made on the layers in one run
MaxOps == 5

\* layers added to a Model
MaxLayers == 2

\* epochs asked of fit
MaxEpochs == 2

\* fit, evaluate and predict calls made on a Model
MaxCalls == 1

(***************************************************************************)
(* Fixed-point floats.                                                     *)
(***************************************************************************)
Scale == 10

Abs(a) == IF a < 0 THEN -a ELSE a

Sgn(a) == IF a < 0 THEN -1 ELSE 1

\* a / b on integers, rounded toward zero
Quot(a, b) == Sgn(a) * Sgn(b) * (Abs(a) \div Abs(b))

\* float product a * b
FMul(a, b) == Quot(a * b, Scale)

\* float quotient a / b
FDiv(a, b) == Quot(a * Scale, b)

\* The float values the operands of the algebra are drawn from: -1.0 and 2.5
TensorValues == {-Scale, 25}

(***************************************************************************)
(* tensor.h: struct Tensor, row-major; element (r, c), 0-based, is         *)
(* data[r * cols + c] (1-based in the sequence: + 1).                      *)
(***************************************************************************)
Zeros(n) == [k \in 1..n |-> 0]

Tensor(r, c) == [rows |-> r, cols |-> c, data |-> Zeros(r * c)]

EmptyTensor == [rows |-> 0, cols |-> 0, data |-> <<>>]

At(A, r, c) == A.data[r * A.cols + c + 1]

RECURSIVE DotLoop(_, _, _, _, _, _)
\* matmul's inner loop: for (k = 0; k < A.cols; ++k) sum += A(i,k) * B(k,j)
DotLoop(A, B, i, j, k, sum) ==
    IF k >= A.cols THEN sum
    ELSE DotLoop(A, B, i, j, k + 1, sum + FMul(At(A, i, k), At(B, k, j)))

matmulSwapped(A, B) ==
    [rows |-> A.rows, cols |-> B.cols,
     data |-> [n \in 1..(A.rows * B.cols) |->
                 DotLoop(A, B, (n - 1) % A.rows, (n - 1) \div A.rows, 0, 0)]]

\* matmul(A, B), for A.cols = B.rows (the caller checks the assert)
matmul(A, B) ==
    [rows |-> A.rows, cols |-> B.cols,
     data |-> [n \in 1..(A.rows * B.cols) |->
                 DotLoop(A, B, (n - 1) \div B.cols, (n - 1) % B.cols, 0, 0)]]

\* transpose(A): T(j, i) = A(i, j), T of shape (A.cols, A.rows)
transpose(A) ==
    [rows |-> A.cols, cols |-> A.rows,
     data |-> [n \in 1..(A.rows * A.cols) |->
                 At(A, (n - 1) % A.rows, (n - 1) \div A.rows)]]

\* add_bias(A, b) for A.cols = Len(b): A(i, j) += b[j], in place
add_bias(A, b) ==
    [A EXCEPT !.data = [n \in 1..(A.rows * A.cols) |->
                          A.data[n] + b[((n - 1) % A.cols) + 1]]]

RECURSIVE ArgmaxScan(_, _, _, _)
\* argmax's two loops visit (i, j) in row-major order, that is flat index
\* n = i * cols + j ascending; returns the final max_idx
ArgmaxScan(A, n, max_idx, max_val) ==
    IF n >= A.rows * A.cols THEN max_idx
    ELSE IF A.data[n + 1] > max_val
         THEN ArgmaxScan(A, n + 1, n, A.data[n + 1])
         ELSE ArgmaxScan(A, n + 1, max_idx, max_val)

\* argmax(A), for a Tensor with at least one element
argmax(A) ==
    LET max_idx == ArgmaxScan(A, 0, 0, At(A, 0, 0))
    IN  IF A.rows = 1 THEN max_idx ELSE max_idx % A.cols

(***************************************************************************)
(* Sums written on the flat buffers, for the claims.                       *)
(***************************************************************************)
RECURSIVE SeqSum(_)
SeqSum(s) == IF s = <<>> THEN 0 ELSE Head(s) + SeqSum(Tail(s))

\* sum over k of A(i,k) * B(k,j), written on the flat buffers
ProductEntry(A, B, i, j) ==
    SeqSum([k \in 1..A.cols |->
              FMul(A.data[i * A.cols + k], B.data[(k - 1) * B.cols + j + 1])])

(***************************************************************************)
(* optimizers.h.  More float arithmetic: std::pow with an int exponent and *)
(* std::sqrt.                                                              *)
(***************************************************************************)
RECURSIVE FPow(_, _)
\* std::pow(b, t), t >= 0
FPow(b, t) == IF t = 0 THEN Scale ELSE FMul(b, FPow(b, t - 1))

\* std::sqrt(a), a >= 0: the largest r with (r/Scale)^2 <= a/Scale
FSqrt(a) ==
    CHOOSE r \in 0..(a * Scale + 1) :
        r * r <= a * Scale /\ (r + 1) * (r + 1) > a * Scale

\* std::vector::resize(n, 0.0f)
Resize(v, n) == [k \in 1..n |-> IF k <= Len(v) THEN v[k] ELSE 0]

\* an empty std::unordered_map<Parameter*, std::vector<float>>
EmptyMap == [k \in {} |-> <<>>]

\* map[&param]: the entry, default-constructed (empty) when there is none
MapGet(map, key) == IF key \in DOMAIN map THEN map[key] ELSE <<>>

MapPut(map, key, v) ==
    [k \in DOMAIN map \cup {key} |-> IF k = key THEN v ELSE map[k]]

AccumulatorForgotten(map, key, n) == Zeros(n)

\* auto& v = map[&param]; if (v.empty()) v.resize(param.data.size(), 0.0f);
Accumulator(map, key, n) ==
    IF MapGet(map, key) = <<>> THEN Resize(MapGet(map, key), n)
    ELSE MapGet(map, key)

\* SGDOptimizer::step(param), param the Parameter of identity key
SGDStep(o, key, P) ==
    IF o.momentum > 0
    THEN LET v0 == Accumulator(o.velocity, key, Len(P.data))
             v1 == [i \in 1..Len(P.data) |->
                      FMul(o.momentum, v0[i]) - FMul(o.lr, P.grad[i])]
         IN  [opt   |-> [o EXCEPT !.velocity = MapPut(o.velocity, key, v1)],
              param |-> [P EXCEPT !.data = [i \in 1..Len(P.data) |-> P.data[i] + v1[i]]]]
    ELSE [opt   |-> o,
          param |-> [P EXCEPT !.data =
                       [i \in 1..Len(P.data) |-> P.data[i] - FMul(o.lr, P.grad[i])]]]

\* RMSPropOptimizer::step(param)
RMSPropStep(o, key, P) ==
    LET v0 == Accumulator(o.cache, key, Len(P.data))
        v1 == [i \in 1..Len(P.data) |->
                 FMul(o.beta, v0[i]) + FMul(FMul(Scale - o.beta, P.grad[i]), P.grad[i])]
    IN  [opt   |-> [o EXCEPT !.cache = MapPut(o.cache, key, v1)],
         param |-> [P EXCEPT !.data = [i \in 1..Len(P.data) |->
                      P.data[i] - FDiv(FMul(o.lr, P.grad[i]), FSqrt(v1[i]) + o.eps)]]]

AdamTimestepPerElement(o, P) == o.timestep + Len(P.data)

\* timestep++ at the top of AdamOptimizer::step
AdamTimestep(o, P) == o.timestep + 1

\* AdamOptimizer::step(param); den1 and den2 are the two bias-correction
\* denominators the call computes
AdamStep(o, key, P) ==
    LET t    == AdamTimestep(o, P)
        n    == Len(P.data)
        m0   == IF MapGet(o.m, key) = <<>> THEN Resize(MapGet(o.m, key), n)
                ELSE MapGet(o.m, key)
        v0   == IF MapGet(o.m, key) = <<>> THEN Resize(MapGet(o.v, key), n)
                ELSE MapGet(o.v, key)
        m1   == [i \in 1..n |-> FMul(o.beta1, m0[i]) + FMul(Scale - o.beta1, P.grad[i])]
        v1   == [i \in 1..n |->
                   FMul(o.beta2, v0[i]) + FMul(FMul(Scale - o.beta2, P.grad[i]), P.grad[i])]
        den1 == Scale - FPow(o.beta1, t)
        den2 == Scale - FPow(o.beta2, t)
        mhat == [i \in 1..n |-> FDiv(m1[i], den1)]
        vhat == [i \in 1..n |-> FDiv(v1[i], den2)]
    IN  [opt   |-> [o EXCEPT !.timestep = t,
                             !.m = MapPut(o.m, key, m1),
                             !.v = MapPut(o.v, key, v1)],
         param |-> [P EXCEPT !.data = [i \in 1..n |->
                      P.data[i] - FDiv(FMul(o.lr, mhat[i]), FSqrt(vhat[i]) + o.eps)]],
         den1  |-> den1,
         den2  |-> den2]

(***************************************************************************)
(* The optimizers under test: two Parameter objects of different lengths,  *)
(* one instance of each optimizer, a caller that writes gradients and      *)
(* calls step in any order.                                                *)
(***************************************************************************)
ParamIds == {"p1", "p2"}

ParamLen(p) == IF p = "p1" THEN 1 ELSE MaxParamLen

OptKinds == {"sgd", "rmsprop", "adam"}

\* the data a Parameter starts with: 1.0, 0.5, 0.0, ...
InitialData(n) == [k \in 1..n |-> Scale - (k - 1) * 5]

\* the gradients a caller writes: 2.0, 3.0, ... or -1.0, 0.0, ...
GradSet(n) == {[k \in 1..n |-> g + (k - 1) * Scale] : g \in {2 * Scale, -Scale}}

\* SGDOptimizer(0.1f), SGDOptimizer(0.1f, 0.5f), SGDOptimizer(0.1f, -0.5f)
SGDSet == {[lr |-> 1, momentum |-> mo, velocity |-> EmptyMap] : mo \in {0, 5, -5}}

\* RMSPropOptimizer(0.1f, 0.5f, 0.1f)
NewRMSProp == [lr |-> 1, beta |-> 5, eps |-> 1, cache |-> EmptyMap]

\* AdamOptimizer(0.1f, 0.5f, 0.8f, 0.1f)
NewAdam == [lr |-> 1, beta1 |-> 5, beta2 |-> 8, eps |-> 1,
            timestep |-> 0, m |-> EmptyMap, v |-> EmptyMap]

NoStep == [opt |-> "none", key |-> "none", den1 |-> 0, den2 |-> 0]

NoCalls == [k \in OptKinds |-> [p \in ParamIds |-> 0]]

CallsOf(k) == calls[k]["p1"] + calls[k]["p2"]

TotalCalls == CallsOf("sgd") + CallsOf("rmsprop") + CallsOf("adam")

OptInit ==
    /\ param = [p \in ParamIds |->
                  [data |-> InitialData(ParamLen(p)), grad |-> Zeros(ParamLen(p))]]
    /\ sgd \in SGDSet
    /\ rmsprop = NewRMSProp
    /\ adam = NewAdam
    /\ calls = NoCalls
    /\ lastStep = NoStep

\* the caller assigns param.grad (as DenseLayer::sync_gradients does)
WriteGrad(p, g) ==
    /\ aborted = "no"
    /\ param[p].grad # g
    /\ param' = [param EXCEPT ![p].grad = g]
    /\ UNCHANGED <<sgd, rmsprop, adam, calls, lastStep, tensorVars, netVars, aborted>>

\* sgd.step(param[p])
SGDStepCall(p) ==
    /\ aborted = "no" /\ TotalCalls < MaxSteps
    /\ LET r == SGDStep(sgd, p, param[p])
       IN  /\ sgd' = r.opt
           /\ param' = [param EXCEPT ![p] = r.param]
    /\ calls' = [calls EXCEPT !["sgd"][p] = @ + 1]
    /\ lastStep' = [opt |-> "sgd", key |-> p, den1 |-> 0, den2 |-> 0]
    /\ UNCHANGED <<rmsprop, adam, tensorVars, netVars, aborted>>

\* rmsprop.step(param[p])
RMSPropStepCall(p) ==
    /\ aborted = "no" /\ TotalCalls < MaxSteps
    /\ LET r == RMSPropStep(rmsprop, p, param[p])
       IN  /\ rmsprop' = r.opt
           /\ param' = [param EXCEPT ![p] = r.param]
    /\ calls' = [calls EXCEPT !["rmsprop"][p] = @ + 1]
    /\ lastStep' = [opt |-> "rmsprop", key |-> p, den1 |-> 0, den2 |-> 0]
    /\ UNCHANGED <<sgd, adam, tensorVars, netVars, aborted>>

\* adam.step(param[p])
AdamStepCall(p) ==
    /\ aborted = "no" /\ TotalCalls < MaxSteps
    /\ LET r == AdamStep(adam, p, param[p])
       IN  /\ adam' = r.opt
           /\ param' = [param EXCEPT ![p] = r.param]
           /\ lastStep' = [opt |-> "adam", key |-> p, den1 |-> r.den1, den2 |-> r.den2]
    /\ calls' = [calls EXCEPT !["adam"][p] = @ + 1]
    /\ UNCHANGED <<sgd, rmsprop, tensorVars, netVars, aborted>>

OptNext ==
    \/ \E p \in ParamIds : \E g \in GradSet(ParamLen(p)) : WriteGrad(p, g)
    \/ \E p \in ParamIds : SGDStepCall(p)
    \/ \E p \in ParamIds : RMSPropStepCall(p)
    \/ \E p \in ParamIds : AdamStepCall(p)

(***************************************************************************)
(* Claims about the optimizers (checked under SpecOpt).                    *)
(***************************************************************************)
\* C3: after n step calls on the one AdamOptimizer, over any mix of the two
\* parameters, its counter is n; and the call just made, the k-th, divided
\* by 1 - beta1^k and 1 - beta2^k, k counting the calls on all parameters.
C3_AdamSharedCounter ==
    /\ adam.timestep = CallsOf("adam")
    /\ lastStep.opt = "adam" =>
          /\ lastStep.den1 = Scale - FPow(adam.beta1, CallsOf("adam"))
          /\ lastStep.den2 = Scale - FPow(adam.beta2, CallsOf("adam"))

\* C3's case: Adam's third call is the first one on the longer parameter
C3_Witness ==
    /\ lastStep.opt = "adam" /\ lastStep.key = "p2"
    /\ calls["adam"]["p2"] = 1 /\ calls["adam"]["p1"] = 2
    /\ adam.timestep = 3
    /\ Len(param["p2"].data) > Len(param["p1"].data)

\* what a step on p must leave alone in the accumulator map acc -> acc2
OthersKept(acc, acc2, p) ==
    \A q \in ParamIds \ {p} :
        /\ (q \in DOMAIN acc2) = (q \in DOMAIN acc)
        /\ q \in DOMAIN acc => acc2[q] = acc[q]

\* the accumulator a step on p starts from: the one the previous step on p
\* left, or zeros of the parameter's length
StartOf(acc, p) ==
    IF p \in DOMAIN acc THEN acc[p] ELSE [i \in 1..Len(param[p].data) |-> 0]

C4_Step ==
    \A p \in ParamIds :
        LET g == param[p].grad
            n == Len(param[p].data)
        IN
        /\ (SGDStepCall(p) /\ sgd.momentum > 0) =>
              /\ p \in DOMAIN sgd'.velocity /\ Len(sgd'.velocity[p]) = n
              /\ \A i \in 1..n : sgd'.velocity[p][i] =
                    FMul(sgd.momentum, StartOf(sgd.velocity, p)[i]) - FMul(sgd.lr, g[i])
              /\ OthersKept(sgd.velocity, sgd'.velocity, p)
        /\ RMSPropStepCall(p) =>
              /\ p \in DOMAIN rmsprop'.cache /\ Len(rmsprop'.cache[p]) = n
              /\ \A i \in 1..n : rmsprop'.cache[p][i] =
                    FMul(rmsprop.beta, StartOf(rmsprop.cache, p)[i])
                    + FMul(FMul(Scale - rmsprop.beta, g[i]), g[i])
              /\ OthersKept(rmsprop.cache, rmsprop'.cache, p)
        /\ AdamStepCall(p) =>
              /\ p \in DOMAIN adam'.m /\ Len(adam'.m[p]) = n
              /\ p \in DOMAIN adam'.v /\ Len(adam'.v[p]) = n
              /\ \A i \in 1..n :
                    /\ adam'.m[p][i] = FMul(adam.beta1, StartOf(adam.m, p)[i])
                                       + FMul(Scale - adam.beta1, g[i])
                    /\ adam'.v[p][i] = FMul(adam.beta2, StartOf(adam.v, p)[i])
                                       + FMul(FMul(Scale - adam.beta2, g[i]), g[i])
              /\ OthersKept(adam.m, adam'.m, p)
              /\ OthersKept(adam.v, adam'.v, p)
        /\ (SGDStepCall(p) \/ RMSPropStepCall(p) \/ AdamStepCall(p)) =>
              \A q \in ParamIds \ {p} : param'[q] = param[q]

C5_Step ==
    \A p \in ParamIds :
        SGDStepCall(p) =>
            LET P == param[p]
                n == Len(P.data)
            IN  /\ param'[p].grad = P.grad
                /\ IF sgd.momentum = 0
                   THEN \A i \in 1..n :
                           param'[p].data[i] = P.data[i] - FMul(sgd.lr, P.grad[i])
                   ELSE /\ p \in DOMAIN sgd'.velocity
                        /\ \A i \in 1..n :
                              /\ sgd'.velocity[p][i] =
                                    FMul(sgd.momentum, StartOf(sgd.velocity, p)[i])
                                    - FMul(sgd.lr, P.grad[i])
                              /\ param'[p].data[i] = P.data[i] + sgd'.velocity[p][i]

\* C5: SGDOptimizer.step subtracts lr*grad when the momentum factor is zero;
\* for every other factor, negative ones included, the velocity becomes
\* momentum*v - lr*grad and is added to the data; grad is unchanged.
C5_MomentumRule == [][C5_Step]_vars

(***************************************************************************)
(* activations.h.  Of the twelve kinds the model holds ten; SELU and GELU,  *)
(* whose constants lie below the resolution, are left out.  std::exp and   *)
(* std::tanh are tables in steps of 1 / Scale, rounded toward zero.        *)
(***************************************************************************)
\* std::exp(x) for x <= 0, in steps of 1 / Scale
ExpTable == <<10, 9, 8, 7, 6, 6, 5, 4, 4, 4, 3, 3, 3, 2, 2, 2, 2, 1, 1, 1, 1, 1, 1, 1>>

\* std::exp(x) for 0 < x <= 3.0
ExpTablePos ==
    <<11, 12, 13, 14, 16, 18, 20, 22, 24, 27, 30, 33, 36, 40, 44, 49, 54, 60, 66, 73,
      81, 90, 99, 110, 121, 134, 148, 164, 181, 200>>

RECURSIVE FExp(_)
\* std::exp; above 3.0 by exp(a + b) = exp(a) * exp(b)
FExp(x) ==
    IF x > Len(ExpTablePos)
    THEN FMul(ExpTablePos[Len(ExpTablePos)], FExp(x - Len(ExpTablePos)))
    ELSE IF x > 0 THEN ExpTablePos[x]
    ELSE IF 1 - x > Len(ExpTable) THEN 0 ELSE ExpTable[1 - x]

\* std::tanh(x) for 0 < x <= 3.0
TanhTable ==
    <<0, 1, 2, 3, 4, 5, 6, 6, 7, 7, 8, 8, 8, 8, 9, 9, 9, 9, 9, 9, 9, 9, 9, 9, 9, 9, 9, 9,
      9, 9>>

\* std::tanh, an odd function
FTanh(x) ==
    IF x = 0 THEN 0
    ELSE Sgn(x) * TanhTable[IF Abs(x) > Len(TanhTable) THEN Len(TanhTable) ELSE Abs(x)]

\* Activation(t, alpha_, beta_)
Activation(t, alpha_, beta_) ==
    [type |-> t, alpha |-> alpha_, beta |-> beta_,
     input_cache |-> EmptyTensor, output_cache |-> EmptyTensor]

\* Activation(t, alpha_ = 0.01f, beta_ = 1.0f): 0.01 is below the resolution
NewActivation(t) ==
    [type |-> t, alpha |-> 0, beta |-> Scale,
     input_cache |-> EmptyTensor, output_cache |-> EmptyTensor]

\* Activation::activate
activate(a, x) ==
    CASE a.type = "STEP" -> IF x > 0 THEN Scale ELSE 0
      [] a.type = "LINEAR" -> x
      [] a.type = "RELU" -> IF 0 < x THEN x ELSE 0
      [] a.type \in {"LEAKY_RELU", "PRELU"} -> IF x > 0 THEN x ELSE FMul(a.alpha, x)
      [] a.type = "SIGMOID" -> FDiv(Scale, Scale + FExp(-x))
      [] a.type = "TANH" -> FTanh(x)
      [] a.type = "ELU" -> IF x >= 0 THEN x ELSE FMul(a.alpha, FExp(x) - Scale)
      [] a.type = "SWISH" -> FDiv(x, Scale + FExp(-FMul(a.beta, x)))
      [] a.type = "SOFTMAX" -> x

\* Activation::derivative
derivative(a, x, y) ==
    CASE a.type = "STEP" -> 0
      [] a.type = "LINEAR" -> Scale
      [] a.type = "RELU" -> IF x > 0 THEN Scale ELSE 0
      [] a.type \in {"LEAKY_RELU", "PRELU"} -> IF x > 0 THEN Scale ELSE a.alpha
      [] a.type = "SIGMOID" -> FMul(y, Scale - y)
      [] a.type = "TANH" -> Scale - FMul(y, y)
      [] a.type = "ELU" -> IF x >= 0 THEN Scale ELSE FMul(a.alpha, FExp(x))
      [] a.type = "SWISH" ->
            LET sig == FDiv(Scale, Scale + FExp(-FMul(a.beta, x)))
            IN  sig + FMul(FMul(FMul(a.beta, x), sig), Scale - sig)
      [] a.type = "SOFTMAX" -> Scale

RECURSIVE RowMax(_, _, _, _)
\* softmax: max_val = X(i, 0); for (j = 1; j < X.cols; ++j) max_val = max(max_val, X(i, j))
RowMax(X, i, j, max_val) ==
    IF j >= X.cols THEN max_val
    ELSE RowMax(X, i, j + 1, IF max_val < At(X, i, j) THEN At(X, i, j) ELSE max_val)

RECURSIVE RowExpSum(_, _, _, _, _)
\* softmax: sum of exp(X(i, j) - max_val) over the row
RowExpSum(X, i, j, max_val, sum) ==
    IF j >= X.cols THEN sum
    ELSE RowExpSum(X, i, j + 1, max_val, sum + FExp(At(X, i, j) - max_val))

\* Activation::softmax, row-wise, of a Tensor with at least one column
softmax(X) ==
    [X EXCEPT !.data = [n \in 1..(X.rows * X.cols) |->
        LET i == (n - 1) \div X.cols
            m == RowMax(X, i, 1, At(X, i, 0))
        IN  FDiv(FExp(X.data[n] - m), RowExpSum(X, i, 0, m, 0))]]

\* Activation::forward: the activation with its caches written, and Y
ActivationForward(a, X) ==
    LET Y0 == [rows |-> X.rows, cols |-> X.cols,
               data |-> [n \in 1..(X.rows * X.cols) |-> activate(a, X.data[n])]]
        Y  == IF a.type = "SOFTMAX" THEN softmax(Y0) ELSE Y0
    IN  [act |-> [a EXCEPT !.input_cache = X, !.output_cache = Y], out |-> Y]

\* the two asserts of Activation::backward: the one that fails, or "no"
ActivationBackwardAssert(a, dOut) ==
    IF dOut.rows # a.output_cache.rows
    THEN "Activation::backward: dOut.rows == output_cache.rows"
    ELSE IF dOut.cols # a.output_cache.cols
    THEN "Activation::backward: dOut.cols == output_cache.cols"
    ELSE "no"

\* a backward that hands dOut back for every kind
ActivationBackwardPassThrough(a, dOut) == dOut

\* Activation::backward past its asserts
ActivationBackward(a, dOut) ==
    IF a.type = "SOFTMAX" THEN dOut
    ELSE [rows |-> dOut.rows, cols |-> dOut.cols,
          data |-> [n \in 1..(dOut.rows * dOut.cols) |->
                      FMul(dOut.data[n],
                           derivative(a, a.input_cache.data[n], a.output_cache.data[n]))]]

(***************************************************************************)
(* dense_layer.h                                                           *)
(***************************************************************************)
\* DenseLayer(input_dim, output_dim, act_type)
DenseLayer(input_dim, output_dim, act_type) ==
    [W           |-> Tensor(input_dim, output_dim),
     b           |-> Zeros(output_dim),
     grad_W      |-> Tensor(input_dim, output_dim),
     grad_b      |-> Zeros(output_dim),
     W_param     |-> [data |-> Tensor(input_dim, output_dim).data,
                      grad |-> Tensor(input_dim, output_dim).data],
     b_param     |-> [data |-> Zeros(output_dim), grad |-> Zeros(output_dim)],
     input_cache |-> EmptyTensor,
     activation  |-> NewActivation(act_type)]

\* a forward that fills input_cache on the first call only
DenseForwardKeepsCache(L, X) ==
    IF X.cols # L.W.rows
    THEN [layer |-> L, out |-> EmptyTensor,
          aborted |-> "DenseLayer::forward: X.cols == W.rows"]
    ELSE LET r == ActivationForward(L.activation, add_bias(matmul(X, L.W), L.b))
         IN  [layer |-> [L EXCEPT !.input_cache =
                                     IF L.input_cache = EmptyTensor THEN X
                                     ELSE L.input_cache,
                                  !.activation = r.act],
              out |-> r.out, aborted |-> "no"]

\* DenseLayer::forward: the layer after the call, what it returned, and the
\* assert that failed ("no": none)
DenseForward(L, X) ==
    IF X.cols # L.W.rows
    THEN [layer |-> L, out |-> EmptyTensor,
          aborted |-> "DenseLayer::forward: X.cols == W.rows"]
    ELSE LET L1 == [L EXCEPT !.input_cache = X]
         IN  IF L.W.cols # Len(L.b)
             THEN [layer |-> L1, out |-> EmptyTensor,
                   aborted |-> "add_bias: A.cols == b.size()"]
             ELSE LET r == ActivationForward(L.activation, add_bias(matmul(X, L.W), L.b))
                  IN  [layer |-> [L1 EXCEPT !.activation = r.act], out |-> r.out,
                       aborted |-> "no"]

RECURSIVE ColSum(_, _, _, _)
\* for (i = 0; i < dAct.rows; ++i) grad_b[j] += dAct(i, j), from acc
ColSum(dAct, j, i, acc) ==
    IF i >= dAct.rows THEN acc ELSE ColSum(dAct, j, i + 1, acc + At(dAct, i, j))

GradBAccumulated(L, dAct) ==
    [j \in 1..Len(L.grad_b) |->
        IF j <= dAct.cols THEN ColSum(dAct, j - 1, 0, L.grad_b[j]) ELSE L.grad_b[j]]

\* a grad_b rebuilt with one entry per row of dAct
GradBPerRow(L, dAct) == [i \in 1..dAct.rows |-> ColSum(dAct, 0, i - 1, 0)]

\* std::fill(grad_b, 0.0f), then the column sums of dAct
GradB(L, dAct) ==
    [j \in 1..Len(L.grad_b) |-> IF j <= dAct.cols THEN ColSum(dAct, j - 1, 0, 0) ELSE 0]

\* DenseLayer::sync_gradients
sync_gradients(L) ==
    [L EXCEPT !.W_param.grad = L.grad_W.data, !.b_param.grad = L.grad_b]

sync_weightsOnlyW(L) == [L EXCEPT !.W.data = L.W_param.data]

\* DenseLayer::sync_weights
sync_weights(L) == [L EXCEPT !.W.data = L.W_param.data, !.b = L.b_param.data]

DenseBackwardAssertNone(L, dOut) == "no"

\* the two asserts of DenseLayer::backward: the one that fails, or "no"
DenseBackwardAssert(L, dOut) ==
    IF dOut.cols # L.W.cols THEN "DenseLayer::backward: dOut.cols == W.cols"
    ELSE IF dOut.rows # L.input_cache.rows
    THEN "DenseLayer::backward: dOut.rows == input_cache.rows"
    ELSE "no"

\* DenseLayer::backward: the layer after the call, the dX it returned, and
\* the assert that failed ("no": none)
DenseBackward(L, dOut) ==
    IF DenseBackwardAssert(L, dOut) # "no"
    THEN [layer |-> L, out |-> EmptyTensor, aborted |-> DenseBackwardAssert(L, dOut)]
    ELSE IF ActivationBackwardAssert(L.activation, dOut) # "no"
    THEN [layer |-> L, out |-> EmptyTensor,
          aborted |-> ActivationBackwardAssert(L.activation, dOut)]
    ELSE IF transpose(L.input_cache).cols # dOut.rows
    THEN [layer |-> L, out |-> EmptyTensor, aborted |-> "matmul: A.cols == B.rows"]
    ELSE LET dAct == ActivationBackward(L.activation, dOut)
             L1   == [L EXCEPT !.grad_W = matmul(transpose(L.input_cache), dAct),
                               !.grad_b = GradB(L, dAct)]
         IN  IF dAct.cols # transpose(L.W).rows
             THEN [layer |-> sync_gradients(L1), out |-> EmptyTensor,
                   aborted |-> "matmul: A.cols == B.rows"]
             ELSE [layer |-> sync_gradients(L1), out |-> matmul(dAct, transpose(L.W)),
                   aborted |-> "no"]

(***************************************************************************)
(* loss_functions.h.  A Loss object never changes after construction; the  *)
(* scalar that Loss::forward returns goes to std::cout only and is not     *)
(* held by the model, only whether the call returns.                       *)
(***************************************************************************)
LossTypes ==
    {"MEAN_SQUARED_ERROR", "BINARY_CROSS_ENTROPY", "CATEGORICAL_CROSS_ENTROPY",
     "SPARSE_CATEGORICAL_CROSS_ENTROPY"}

\* Loss(t, classes, epsilon = 1e-7f): 1e-7 is below the resolution
Loss(t, classes) == [type |-> t, num_classes |-> classes, eps |-> 0]

\* a backward that takes every row's class for class 0
sparse_categorical_cross_entropy_backwardClassZero(y_pred, y_true) ==
    [rows |-> y_pred.rows, cols |-> y_pred.cols,
     data |-> [n \in 1..(y_pred.rows * y_pred.cols) |->
                 FMul(IF (n - 1) % y_pred.cols = 0
                      THEN y_pred.data[n] - Scale ELSE y_pred.data[n],
                      FDiv(Scale, y_pred.rows * Scale))]]

\* Loss::sparse_categorical_cross_entropy_backward, y_true one index per row
sparse_categorical_cross_entropy_backward(y_pred, y_true) ==
    LET grad == [n \in 1..(y_pred.rows * y_pred.cols) |->
                    IF (n - 1) % y_pred.cols = y_true[((n - 1) \div y_pred.cols) + 1]
                    THEN y_pred.data[n] - Scale ELSE y_pred.data[n]]
        inv_batch == FDiv(Scale, y_pred.rows * Scale)
    IN  [rows |-> y_pred.rows, cols |-> y_pred.cols,
         data |-> [n \in 1..(y_pred.rows * y_pred.cols) |-> FMul(grad[n], inv_batch)]]

\* a forward that finds a dense target whatever the kind
LossForwardDenseGiven(loss, y_pred, y_true_sparse) == "no"

\* Loss::forward(y_pred, y_true_sparse) with y_true_dense left at nullptr:
\* "no" when it returns.  The three dense kinds bind *y_true_dense and read
\* through it: a read at address 0, which ends the process.
LossForward(loss, y_pred, y_true_sparse) ==
    IF loss.type = "SPARSE_CATEGORICAL_CROSS_ENTROPY" THEN "no"
    ELSE "SIGSEGV: Loss::forward reads *y_true_dense, which is null"

\* Loss::backward(y_pred, y_true_sparse), likewise
LossBackwardFault(loss, y_pred, y_true_sparse) ==
    IF loss.type = "SPARSE_CATEGORICAL_CROSS_ENTROPY" THEN "no"
    ELSE "SIGSEGV: Loss::backward reads *y_true_dense, which is null"

\* what Loss::backward returns when it returns
LossBackward(loss, y_pred, y_true_sparse) ==
    sparse_categorical_cross_entropy_backward(y_pred, y_true_sparse)

(***************************************************************************)
(* model.h.  The Model holds pointers: to the layers, in insertion order,  *)
(* to the Loss and to the Optimizer; a pointer is the name of the object,  *)
(* "null" is nullptr.  The private engine works on a record S: the layers  *)
(* (layer), the first failure (aborted, "no": none), the Tensor passed     *)
(* along (x), the correct predictions counted (correct), what was printed  *)
(* (printed) and the calls made on the layers and the loss (log).          *)
(***************************************************************************)
\* Model(): no layer, loss_fn = nullptr, optimizer = nullptr
NewModel == [layers |-> <<>>, loss_fn |-> "null", optimizer |-> "null"]

\* Model::add
add(m, l) == [m EXCEPT !.layers = Append(@, l)]

\* Model::compile
compile(m, loss, opt) == [m EXCEPT !.loss_fn = loss, !.optimizer = opt]

Logged(S, e) == [S EXCEPT !.log = Append(@, e)]

\* S after the call op on layer l came back with r
Took(S, op, l, r) ==
    [S EXCEPT !.layer[l] = r.layer, !.aborted = r.aborted, !.x = r.out,
              !.log = Append(@, <<op, l>>)]

RECURSIVE forward_internal(_, _, _)
RECURSIVE ForwardNext(_, _, _)
\* Model::forward_internal from the k-th layer on, S.x the Tensor so far
forward_internal(m, S, k) ==
    IF k > Len(m.layers) THEN S
    ELSE ForwardNext(m, Took(S, "forward", m.layers[k],
                             DenseForward(S.layer[m.layers[k]], S.x)), k + 1)

\* the loop goes on unless the layer's forward ended the process
ForwardNext(m, S, k) == IF S.aborted # "no" THEN S ELSE forward_internal(m, S, k)

RECURSIVE BackwardAscending(_, _, _)
\* the layers' backward from the k-th layer up
BackwardAscending(m, S, k) ==
    IF k > Len(m.layers) \/ S.aborted # "no" THEN S
    ELSE BackwardAscending(m, Took(S, "backward", m.layers[k],
                                   DenseBackward(S.layer[m.layers[k]], S.x)), k + 1)

\* a backward_internal that walks the layers in insertion order
backward_internalInOrder(m, S, k) == BackwardAscending(m, S, 1)

RECURSIVE backward_internal(_, _, _)
RECURSIVE BackwardNext(_, _, _)
\* Model::backward_internal from the k-th layer down, S.x the gradient so far
backward_internal(m, S, k) ==
    IF k < 1 THEN S
    ELSE BackwardNext(m, Took(S, "backward", m.layers[k],
                              DenseBackward(S.layer[m.layers[k]], S.x)), k - 1)

\* the loop goes on unless the layer's backward ended the process
BackwardNext(m, S, k) == IF S.aborted # "no" THEN S ELSE backward_internal(m, S, k)

\* an optimizer_step that applies the plain update to every layer and syncs
optimizer_stepApplied(S) ==
    [S EXCEPT !.layer = [l \in DOMAIN S.layer |->
        sync_weights([S.layer[l] EXCEPT
            !.W_param.data = [n \in 1..Len(@) |-> @[n] - S.layer[l].W_param.grad[n]],
            !.b_param.data = [n \in 1..Len(@) |-> @[n] - S.layer[l].b_param.grad[n]]])]]

\* Model::optimizer_step: an empty body
optimizer_step(S) == S

\* loss_fn->forward(output, y_vec): "no" when it returns; through a null
\* loss_fn the call reads the Loss's type at address 0
LossFnForward(m, losses, S, y_vec) ==
    IF m.loss_fn = "null" THEN "SIGSEGV: loss_fn is null"
    ELSE LossForward(losses[m.loss_fn], S.x, y_vec)

\* loss_fn->backward(output, y_vec), likewise
LossFnBackward(m, losses, S, y_vec) ==
    IF m.loss_fn = "null" THEN "SIGSEGV: loss_fn is null"
    ELSE LossBackwardFault(losses[m.loss_fn], S.x, y_vec)

\* fit's inner loop body, its last statement: optimizer_step()
FitUpdate(S) ==
    IF S.aborted # "no" THEN S ELSE Logged(optimizer_step(S), <<"optimizer_step">>)

\* fit's inner loop body from the loss's backward on, S.x the model's output
FitBackward(m, losses, S, y_vec) ==
    IF LossFnBackward(m, losses, S, y_vec) # "no"
    THEN [Logged(S, <<"loss_fn->backward">>) EXCEPT
             !.aborted = LossFnBackward(m, losses, S, y_vec)]
    ELSE FitUpdate(backward_internal(
             m, [Logged(S, <<"loss_fn->backward">>) EXCEPT
                    !.x = LossBackward(losses[m.loss_fn], S.x, y_vec)],
             Len(m.layers)))

\* the loss's forward and the accuracy count, S.x the model's output
LossAndAccuracy(m, losses, S, yi) ==
    IF LossFnForward(m, losses, S, <<yi>>) # "no"
    THEN [Logged(S, <<"loss_fn->forward">>) EXCEPT
             !.aborted = LossFnForward(m, losses, S, <<yi>>)]
    ELSE [S EXCEPT !.log = @ \o <<(<<"loss_fn->forward">>), (<<"argmax">>)>>,
                   !.correct = IF argmax(S.x) = yi THEN @ + 1 ELSE @]

\* fit's inner loop body after the loss's forward and the accuracy count
FitAfterLoss(m, losses, S, yi) ==
    IF S.aborted # "no" THEN S ELSE FitBackward(m, losses, S, <<yi>>)

\* fit's inner loop body after forward_internal
FitAfterForward(m, losses, S, yi) ==
    IF S.aborted # "no" THEN S
    ELSE FitAfterLoss(m, losses, LossAndAccuracy(m, losses, S, yi), yi)

\* the body of fit's inner loop for the example (x, yi)
FitExample(m, losses, S, x, yi) ==
    FitAfterForward(m, losses, forward_internal(m, [S EXCEPT !.x = x], 1), yi)

RECURSIVE FitLoop(_, _, _, _, _, _, _, _)
\* fit's two loops, from example i (1-based) of epoch number epoch
FitLoop(m, losses, S, X, y, epochs, epoch, i) ==
    IF S.aborted # "no" \/ epoch >= epochs THEN S
    ELSE IF i > Len(X)
    THEN FitLoop(m, losses,
                 [S EXCEPT !.printed = Append(@, <<S.correct, Len(X)>>), !.correct = 0],
                 X, y, epochs, epoch + 1, 1)
    ELSE FitLoop(m, losses, FitExample(m, losses, S, X[i], y[i]), X, y, epochs, epoch, i + 1)

\* a fit that asserts nothing
FitAssertNone(m) == "no"

\* assert(loss_fn && optimizer && "Model must be compiled before training")
FitAssert(m) ==
    IF m.loss_fn # "null" /\ m.optimizer # "null" THEN "no"
    ELSE "Model::fit: Model must be compiled before training"

\* assert(loss_fn && "Loss function not set")
EvaluateAssert(m) ==
    IF m.loss_fn # "null" THEN "no" ELSE "Model::evaluate: Loss function not set"

\* evaluate's loop body after forward_internal
EvaluateAfterForward(m, losses, S, yi) ==
    IF S.aborted # "no" THEN S ELSE LossAndAccuracy(m, losses, S, yi)

\* the body of evaluate's loop for the example (x, yi)
EvaluateExample(m, losses, S, x, yi) ==
    EvaluateAfterForward(m, losses, forward_internal(m, [S EXCEPT !.x = x], 1), yi)

RECURSIVE EvaluateLoop(_, _, _, _, _, _)
\* evaluate's loop from example i (1-based)
EvaluateLoop(m, losses, S, X, y, i) ==
    IF S.aborted # "no" \/ i > Len(X) THEN S
    ELSE EvaluateLoop(m, losses, EvaluateExample(m, losses, S, X[i], y[i]), X, y, i + 1)

\* Model::fit; batch_size is not used
fit(m, losses, S, X, y, epochs, batch_size) ==
    IF FitAssert(m) # "no" THEN [S EXCEPT !.aborted = FitAssert(m)]
    ELSE FitLoop(m, losses, S, X, y, epochs, 0, 1)

\* Model::evaluate
evaluate(m, losses, S, X, y) ==
    IF EvaluateAssert(m) # "no" THEN [S EXCEPT !.aborted = EvaluateAssert(m)]
    ELSE EvaluateLoop(m, losses, S, X, y, 1)

\* Model::predict, S.x the input
predict(m, S) == forward_internal(m, S, 1)

(***************************************************************************)
(* The layers under test: the driver's calls on two layers (main.cpp):     *)
(* load weights, forward, backward, the optimizer's step on W_param and    *)
(* b_param, sync_weights.                                                  *)
(***************************************************************************)
LayerIds == {"d1", "d2"}

\* DenseLayer d1(2, 3, RELU); DenseLayer d2(3, 2, SOFTMAX); and the layers of
\* the training run: DenseLayer t1(2, 3, RELU); DenseLayer t2(3, 1, SIGMOID);
LayerArgs ==
    [d1 |-> [input_dim |-> 2, output_dim |-> 3, act_type |-> "RELU"],
     d2 |-> [input_dim |-> 3, output_dim |-> 2, act_type |-> "SOFTMAX"],
     t1 |-> [input_dim |-> 2, output_dim |-> 3, act_type |-> "RELU"],
     t2 |-> [input_dim |-> 3, output_dim |-> 1, act_type |-> "SIGMOID"]]

\* the identity (address) of a layer's W_param and b_param
WKey(l) == l \o ".W_param"

BKey(l) == l \o ".b_param"

\* the weight files' content: W filled row-major with 1.0, -1.0, 2.0, ..., b with 0.5, -0.5, ...
FileW(l) ==
    [n \in 1..(LayerArgs[l].input_dim * LayerArgs[l].output_dim) |->
        <<Scale, -Scale, 2 * Scale>>[((n - 1) % 3) + 1]]

FileB(l) == [n \in 1..LayerArgs[l].output_dim |-> <<5, -5>>[((n - 1) % 2) + 1]]

\* the inputs handed to forward: one and two rows of the layer's input_dim
\* and, to meet the assert, one of a column too many
InputsOf(l) ==
    LET d == LayerArgs[l].input_dim
    IN  {[rows |-> 1, cols |-> d, data |-> [n \in 1..d |-> Scale * n]],
         [rows |-> 2, cols |-> d,
          data |-> [n \in 1..(2 * d) |-> IF n % 2 = 0 THEN -Scale ELSE 2 * Scale]],
         [rows |-> 1, cols |-> d + 1, data |-> [n \in 1..(d + 1) |-> Scale]]}

\* the gradients handed to backward: no, one (two of them) and two rows of
\* the layer's output_dim, one of a column too many, and an empty Tensor
GradsOf(l) ==
    LET d == LayerArgs[l].output_dim
    IN  {[rows |-> r, cols |-> d,
          data |-> [n \in 1..(r * d) |-> IF n % 2 = 0 THEN -Scale * n ELSE Scale]] :
            r \in 0..2}
        \cup {[rows |-> 1, cols |-> d, data |-> [n \in 1..d |-> 2 * Scale]],
              [rows |-> 1, cols |-> d + 1, data |-> [n \in 1..(d + 1) |-> Scale]],
              EmptyTensor}

NoPrev == [op |-> "none", layer |-> "none", sameArg |-> FALSE, overwrote |-> FALSE]

NoLayerCall ==
    [op |-> "none", layer |-> "none", arg |-> EmptyTensor, ret |-> EmptyTensor,
     prev |-> NoPrev]

\* the record of a call, with the call before it, whether that one had the
\* same argument, and whether that one was a forward that came right after
\* a forward of another input on the same layer
Called(op, l, arg, ret) ==
    [op |-> op, layer |-> l, arg |-> arg, ret |-> ret,
     prev |-> [op |-> lastCall.op, layer |-> lastCall.layer,
               sameArg |-> lastCall.arg = arg,
               overwrote |-> /\ lastCall.op = "forward"
                             /\ lastCall.prev.op = "forward"
                             /\ lastCall.prev.layer = lastCall.layer
                             /\ ~lastCall.prev.sameArg]]

\* the layers of ls, as constructed
Constructed(ls) ==
    [l \in ls |-> DenseLayer(LayerArgs[l].input_dim, LayerArgs[l].output_dim,
                             LayerArgs[l].act_type)]

\* the driver has constructed one of the two layers
LayerInit ==
    /\ \E l \in LayerIds : layer = Constructed({l})
    /\ model = NewModel
    /\ lastCall = NoLayerCall
    /\ nOps = 0

\* main.cpp: load_bin into l.W.data and l.b, then copy both to the parameters
LoadWeights(l) ==
    /\ aborted = "no"
    /\ layer[l].W.data # FileW(l)
    /\ layer' = [layer EXCEPT ![l].W.data = FileW(l), ![l].b = FileB(l),
                              ![l].W_param.data = FileW(l), ![l].b_param.data = FileB(l)]
    /\ lastCall' = Called("load", l, EmptyTensor, EmptyTensor)
    /\ UNCHANGED <<nOps, aborted, optVars, tensorVars, model>>

\* l.forward(X)
ForwardCall(l, X) ==
    /\ aborted = "no" /\ nOps < MaxOps
    /\ LET r == DenseForward(layer[l], X)
       IN  /\ layer' = [layer EXCEPT ![l] = r.layer]
           /\ aborted' = r.aborted
           /\ lastCall' = Called("forward", l, X, r.out)
    /\ nOps' = nOps + 1
    /\ UNCHANGED <<optVars, tensorVars, model>>

\* l.backward(dOut)
BackwardCall(l, dOut) ==
    /\ aborted = "no" /\ nOps < MaxOps
    /\ LET r == DenseBackward(layer[l], dOut)
       IN  /\ layer' = [layer EXCEPT ![l] = r.layer]
           /\ aborted' = r.aborted
           /\ lastCall' = Called("backward", l, dOut, r.out)
    /\ nOps' = nOps + 1
    /\ UNCHANGED <<optVars, tensorVars, model>>

\* l.activation.backward(dOut), called on the layer's public member
ActivationBackwardCall(l, dOut) ==
    /\ aborted = "no" /\ nOps < MaxOps
    /\ LET a == layer[l].activation
       IN  /\ aborted' = ActivationBackwardAssert(a, dOut)
           /\ lastCall' = Called("activation.backward", l, dOut,
                                IF ActivationBackwardAssert(a, dOut) = "no"
                                THEN ActivationBackward(a, dOut) ELSE EmptyTensor)
    /\ nOps' = nOps + 1
    /\ UNCHANGED <<layer, optVars, tensorVars, model>>

\* opt.step(l.W_param), opt the SGDOptimizer
StepW(l) ==
    /\ aborted = "no" /\ nOps < MaxOps
    /\ LET r == SGDStep(sgd, WKey(l), layer[l].W_param)
       IN  /\ sgd' = r.opt
           /\ layer' = [layer EXCEPT ![l].W_param = r.param]
    /\ lastCall' = Called("step W_param", l, EmptyTensor, EmptyTensor)
    /\ nOps' = nOps + 1
    /\ UNCHANGED <<param, rmsprop, adam, calls, lastStep, aborted, tensorVars, model>>

\* opt.step(l.b_param)
StepB(l) ==
    /\ aborted = "no" /\ nOps < MaxOps
    /\ LET r == SGDStep(sgd, BKey(l), layer[l].b_param)
       IN  /\ sgd' = r.opt
           /\ layer' = [layer EXCEPT ![l].b_param = r.param]
    /\ lastCall' = Called("step b_param", l, EmptyTensor, EmptyTensor)
    /\ nOps' = nOps + 1
    /\ UNCHANGED <<param, rmsprop, adam, calls, lastStep, aborted, tensorVars, model>>

\* l.sync_weights()
SyncWeightsCall(l) ==
    /\ aborted = "no" /\ nOps < MaxOps
    /\ layer' = [layer EXCEPT ![l] = sync_weights(layer[l])]
    /\ lastCall' = Called("sync_weights", l, EmptyTensor, EmptyTensor)
    /\ nOps' = nOps + 1
    /\ UNCHANGED <<aborted, optVars, tensorVars, model>>

LayerNext ==
    \/ \E l \in DOMAIN layer : LoadWeights(l)
    \/ \E l \in DOMAIN layer : \E X \in InputsOf(l) : ForwardCall(l, X)
    \/ \E l \in DOMAIN layer : \E dOut \in GradsOf(l) : BackwardCall(l, dOut)
    \/ \E l \in DOMAIN layer : \E dOut \in GradsOf(l) : ActivationBackwardCall(l, dOut)
    \/ \E l \in DOMAIN layer : StepW(l)
    \/ \E l \in DOMAIN layer : StepB(l)
    \/ \E l \in DOMAIN layer : SyncWeightsCall(l)

\* no layer constructed
NetIdle ==
    /\ layer = Constructed({})
    /\ model = NewModel
    /\ lastCall = NoLayerCall
    /\ nOps = 0

(***************************************************************************)
(* The Model under test: a caller that owns the two layers, one Loss of    *)
(* each kind and the three optimizers; it loads weights, adds layers,      *)
(* compiles, and calls fit, evaluate and predict in any order.             *)
(***************************************************************************)
LossIds == {"mse", "bce", "cce", "scce"}

\* Loss mse(LossType::MEAN_SQUARED_ERROR); ... Loss scce(..., 2);
Losses ==
    [mse  |-> Loss("MEAN_SQUARED_ERROR", 0),
     bce  |-> Loss("BINARY_CROSS_ENTROPY", 0),
     cce  |-> Loss("CATEGORICAL_CROSS_ENTROPY", 2),
     scce |-> Loss("SPARSE_CATEGORICAL_CROSS_ENTROPY", 2)]

\* one-row examples: two of d1's input_dim, one of d2's
Example(d) ==
    CASE d = "a" -> [rows |-> 1, cols |-> 2, data |-> <<Scale, 2 * Scale>>]
      [] d = "b" -> [rows |-> 1, cols |-> 2, data |-> <<2 * Scale, -Scale>>]
      [] d = "c" -> [rows |-> 1, cols |-> 3, data |-> <<Scale, 0, -Scale>>]

\* the datasets handed to fit and evaluate: std::vector<Tensor> X with one
\* class index in y for each, every index a column of every layer's output
Datasets ==
    {[X |-> <<>>, y |-> <<>>],
     [X |-> <<Example("a")>>, y |-> <<0>>],
     [X |-> <<Example("a"), Example("b")>>, y |-> <<1, 0>>],
     [X |-> <<Example("c")>>, y |-> <<1>>]}

BatchSizes == {1, 2}

\* the (loss, optimizer) pairs handed to compile
Compilations ==
    {<<"scce", "sgd">>, <<"scce", "adam">>, <<"mse", "sgd">>, <<"bce", "rmsprop">>,
     <<"cce", "adam">>}

\* the engine's record at the start of a call
Engine ==
    [layer |-> layer, aborted |-> "no", x |-> EmptyTensor, correct |-> 0,
     printed |-> <<>>, log |-> <<>>]

\* the record of a call on the model that came back with S
ModelCalled(op, arg, d, epochs, batch_size, S) ==
    [op |-> op, layer |-> "model", arg |-> arg,
     ret |-> IF op = "predict" THEN S.x ELSE EmptyTensor,
     X |-> d.X, y |-> d.y, epochs |-> epochs, batch_size |-> batch_size,
     accuracy |-> <<S.correct, Len(d.X)>>, printed |-> S.printed, log |-> S.log]

\* the caller has constructed both layers and a Model
ModelInit ==
    /\ layer = Constructed(LayerIds)
    /\ model = NewModel
    /\ lastCall = NoLayerCall
    /\ nOps = 0

\* model.add(l)
AddCall(l) ==
    /\ aborted = "no" /\ Len(model.layers) < MaxLayers
    /\ model' = add(model, l)
    /\ UNCHANGED <<layer, lastCall, nOps, aborted, optVars, tensorVars>>

\* model.compile(loss, opt)
CompileCall(loss, opt) ==
    /\ aborted = "no"
    /\ model' = compile(model, loss, opt)
    /\ UNCHANGED <<layer, lastCall, nOps, aborted, optVars, tensorVars>>

\* a call on the model came back with S, or ended the process
ModelReturns(op, arg, d, epochs, batch_size, S) ==
    /\ layer' = S.layer
    /\ aborted' = S.aborted
    /\ lastCall' = ModelCalled(op, arg, d, epochs, batch_size, S)
    /\ nOps' = nOps + 1
    /\ UNCHANGED <<model, optVars, tensorVars>>

\* model.fit(d.X, d.y, epochs, batch_size)
FitCall(d, epochs, batch_size) ==
    /\ aborted = "no" /\ nOps < MaxCalls
    /\ ModelReturns("fit", EmptyTensor, d, epochs, batch_size,
                    fit(model, Losses, Engine, d.X, d.y, epochs, batch_size))

\* model.evaluate(d.X, d.y)
EvaluateCall(d) ==
    /\ aborted = "no" /\ nOps < MaxCalls
    /\ ModelReturns("evaluate", EmptyTensor, d, 0, 0,
                    evaluate(model, Losses, Engine, d.X, d.y))

\* model.predict(x)
PredictCall(x) ==
    /\ aborted = "no" /\ nOps < MaxCalls
    /\ ModelReturns("predict", x, [X |-> <<>>, y |-> <<>>], 0, 0,
                    predict(model, [Engine EXCEPT !.x = x]))

ModelNext ==
    \/ \E l \in LayerIds : LoadWeights(l)
    \/ \E l \in LayerIds : AddCall(l)
    \/ \E c \in Compilations : CompileCall(c[1], c[2])
    \/ \E d \in Datasets : \E epochs \in 0..MaxEpochs : \E batch_size \in BatchSizes :
          FitCall(d, epochs, batch_size)
    \/ \E d \in Datasets : EvaluateCall(d)
    \/ \E d \in Datasets : \E i \in 1..Len(d.X) : PredictCall(d.X[i])

(***************************************************************************)
(* The training run: a caller builds the two-layer model 2 -> 3 -> 1 (RELU *)
(* then SIGMOID), loads its starting weights, compiles it with the binary  *)
(* cross-entropy Loss and the SGD optimizer, and calls fit and evaluate on *)
(* four separable points.                                                  *)
(***************************************************************************)
TrainLayerIds == {"t1", "t2"}

\* the points (1, 2), (2, 1) of class 1 and (-1, -2), (-2, -1) of class 0
TrainSet ==
    [X |-> <<[rows |-> 1, cols |-> 2, data |-> <<Scale, 2 * Scale>>],
             [rows |-> 1, cols |-> 2, data |-> <<-Scale, -2 * Scale>>],
             [rows |-> 1, cols |-> 2, data |-> <<2 * Scale, Scale>>],
             [rows |-> 1, cols |-> 2, data |-> <<-2 * Scale, -Scale>>]>>,
     y |-> <<1, 0, 1, 0>>]

TrainInit ==
    /\ layer = Constructed(TrainLayerIds)
    /\ model = NewModel
    /\ lastCall = NoLayerCall
    /\ nOps = 0

TrainNext ==
    \/ \E l \in TrainLayerIds : LoadWeights(l)
    \/ \E l \in TrainLayerIds : AddCall(l)
    \/ CompileCall("bce", "sgd")
    \/ \E epochs \in 0..MaxEpochs : \E batch_size \in BatchSizes :
          FitCall(TrainSet, epochs, batch_size)
    \/ EvaluateCall(TrainSet)

(***************************************************************************)
(* The Tensor algebra under test: operands drawn at Init, one call each.   *)
(***************************************************************************)
TensorsOf(r, c) ==
    {[rows |-> r, cols |-> c, data |-> d] : d \in [1..(r * c) -> TensorValues]}

TensorSet ==
    UNION {TensorsOf(s[1], s[2]) :
              s \in {s \in (1..MaxDim) \X (1..MaxDim) : s[1] * s[2] <= MaxCells}}

NoCall == [op |-> "none", val |-> EmptyTensor, idx |-> -1]

\* no loss call and no Activation under test
FnIdle ==
    /\ tY = <<>>
    /\ act = NewActivation("LINEAR")

TensorInit ==
    /\ tA \in TensorSet
    /\ tB \in TensorSet
    /\ FnIdle
    /\ tOut = NoCall

\* no algebra call under test
TensorIdle ==
    /\ tA = EmptyTensor
    /\ tB = EmptyTensor
    /\ FnIdle
    /\ tOut = NoCall

\* C = matmul(tA, tB): assert(A.cols == B.rows), then the product
CallMatmul ==
    /\ aborted = "no" /\ tOut.op = "none"
    /\ IF tA.cols = tB.rows
       THEN /\ tOut' = [op |-> "matmul", val |-> matmul(tA, tB), idx |-> -1]
            /\ UNCHANGED aborted
       ELSE /\ aborted' = "matmul: A.cols == B.rows"
            /\ UNCHANGED tOut
    /\ UNCHANGED <<tA, tB, tY, act, optVars, netVars>>

\* matmul(transpose(tB), transpose(tA))
CallMatmulOfTransposes ==
    /\ aborted = "no" /\ tOut.op = "none"
    /\ IF transpose(tB).cols = transpose(tA).rows
       THEN /\ tOut' = [op |-> "matmulT",
                        val |-> matmul(transpose(tB), transpose(tA)), idx |-> -1]
            /\ UNCHANGED aborted
       ELSE /\ aborted' = "matmul: A.cols == B.rows"
            /\ UNCHANGED tOut
    /\ UNCHANGED <<tA, tB, tY, act, optVars, netVars>>

\* T = transpose(tA)
CallTranspose ==
    /\ aborted = "no" /\ tOut.op = "none"
    /\ tOut' = [op |-> "transpose", val |-> transpose(tA), idx |-> -1]
    /\ UNCHANGED <<tA, tB, tY, act, aborted, optVars, netVars>>

\* add_bias(tA, tB.data): assert(A.cols == b.size()), then tA changes in place
CallAddBias ==
    /\ aborted = "no" /\ tOut.op = "none"
    /\ IF tA.cols = Len(tB.data)
       THEN /\ tA' = add_bias(tA, tB.data)
            /\ tOut' = [op |-> "add_bias", val |-> tA, idx |-> -1]
            /\ UNCHANGED aborted
       ELSE /\ aborted' = "add_bias: A.cols == b.size()"
            /\ UNCHANGED <<tA, tOut>>
    /\ UNCHANGED <<tB, tY, act, optVars, netVars>>

\* argmax(tA)
CallArgmax ==
    /\ aborted = "no" /\ tOut.op = "none"
    /\ tOut' = [op |-> "argmax", val |-> EmptyTensor, idx |-> argmax(tA)]
    /\ UNCHANGED <<tA, tB, tY, act, aborted, optVars, netVars>>

TensorNext ==
    \/ CallMatmul
    \/ CallMatmulOfTransposes
    \/ CallTranspose
    \/ CallAddBias
    \/ CallArgmax

(***************************************************************************)
(* The losses under test: a prediction and one in-range class index per    *)
(* row drawn at Init, one call of Loss::forward or Loss::backward with the *)
(* dense target left at its default, on a Loss of any kind.                *)
(***************************************************************************)
LabelsOf(y_pred) == [1..y_pred.rows -> 0..(y_pred.cols - 1)]

LossInit ==
    /\ tA \in TensorSet
    /\ tB = EmptyTensor
    /\ tY \in LabelsOf(tA)
    /\ act = NewActivation("LINEAR")
    /\ tOut = NoCall

\* loss.forward(tA, tY)
CallLossForward(loss) ==
    /\ aborted = "no" /\ tOut.op = "none"
    /\ aborted' = LossForward(Losses[loss], tA, tY)
    /\ tOut' = [op |-> "loss.forward", val |-> EmptyTensor, idx |-> -1]
    /\ UNCHANGED <<tA, tB, tY, act, optVars, netVars>>

\* loss.backward(tA, tY)
CallLossBackward(loss) ==
    /\ aborted = "no" /\ tOut.op = "none"
    /\ aborted' = LossBackwardFault(Losses[loss], tA, tY)
    /\ tOut' = [op |-> "loss.backward",
                val |-> IF LossBackwardFault(Losses[loss], tA, tY) = "no"
                        THEN LossBackward(Losses[loss], tA, tY) ELSE EmptyTensor,
                idx |-> -1]
    /\ UNCHANGED <<tA, tB, tY, act, optVars, netVars>>

LossNext ==
    \/ \E loss \in LossIds : CallLossForward(loss)
    \/ \E loss \in LossIds : CallLossBackward(loss)

(***************************************************************************)
(* The Activation under test: an Activation of any modelled kind, with the *)
(* default or a given alpha and beta; forward and backward called in any   *)
(* order.  tA is the argument of the last forward, tB of the last          *)
(* backward.                                                               *)
(***************************************************************************)
ActivationTypes ==
    {"STEP", "LINEAR", "RELU", "LEAKY_RELU", "PRELU", "SIGMOID", "TANH", "ELU", "SWISH",
     "SOFTMAX"}

\* the inputs handed to forward: every 1 x 2 Tensor and a 2 x 2 one
ActInputs ==
    TensorsOf(1, 2)
        \cup {[rows |-> 2, cols |-> 2, data |-> <<25, -Scale, -Scale, -Scale>>]}

\* the gradients handed to backward: of the inputs' shapes, of another
\* shape, and empty
ActGrads ==
    {[rows |-> 1, cols |-> 2, data |-> <<Scale, -20>>],
     [rows |-> 1, cols |-> 2, data |-> <<-5, 30>>],
     [rows |-> 2, cols |-> 2, data |-> <<Scale, -20, 5, 30>>],
     [rows |-> 2, cols |-> 1, data |-> <<Scale, Scale>>],
     EmptyTensor}

ActInit ==
    /\ tA = EmptyTensor
    /\ tB = EmptyTensor
    /\ tY = <<>>
    /\ act \in {Activation(t, al, be) :
                   t \in ActivationTypes, al \in {0, 5}, be \in {Scale, 2 * Scale}}
    /\ tOut = NoCall

\* act.forward(X)
ActForwardCall(X) ==
    /\ aborted = "no"
    /\ act' = ActivationForward(act, X).act
    /\ tA' = X
    /\ tOut' = [op |-> "activation.forward", val |-> ActivationForward(act, X).out,
                idx |-> -1]
    /\ UNCHANGED <<tB, tY, aborted, optVars, netVars>>

\* act.backward(dOut)
ActBackwardCall(dOut) ==
    /\ aborted = "no"
    /\ aborted' = ActivationBackwardAssert(act, dOut)
    /\ tB' = dOut
    /\ tOut' = [op |-> "activation.backward",
                val |-> IF ActivationBackwardAssert(act, dOut) = "no"
                        THEN ActivationBackward(act, dOut) ELSE EmptyTensor,
                idx |-> -1]
    /\ UNCHANGED <<tA, tY, act, optVars, netVars>>

ActNext ==
    \/ \E X \in ActInputs : ActForwardCall(X)
    \/ \E dOut \in ActGrads : ActBackwardCall(dOut)

\* no optimizer in use: the instances as constructed, no step call made
OptIdle ==
    /\ OptInit
    /\ sgd.momentum = 0

InitTensorSpec == TensorInit /\ OptIdle /\ NetIdle /\ aborted = "no"

SpecTensor == InitTensorSpec /\ [][TensorNext]_vars

InitOptSpec == OptInit /\ TensorIdle /\ NetIdle /\ aborted = "no"

SpecOpt == InitOptSpec /\ [][OptNext]_vars

InitLossSpec == LossInit /\ OptIdle /\ NetIdle /\ aborted = "no"

SpecLoss == InitLossSpec /\ [][LossNext]_vars

InitActSpec == ActInit /\ OptIdle /\ NetIdle /\ aborted = "no"

SpecAct == InitActSpec /\ [][ActNext]_vars

(***************************************************************************)
(* Claims about the dense layer (checked under SpecLayer).                 *)
(***************************************************************************)
\* a call was made in this step, and it was op (every call but the loading
\* of weights counts in nOps)
Made(op) == nOps' # nOps /\ lastCall'.op = op

C6_Constructed ==
    \A l \in DOMAIN layer :
        layer[l].W.data = layer[l].W_param.data /\ layer[l].b = layer[l].b_param.data

C6_Step ==
    LET l == lastCall'.layer
        X == lastCall'.arg
    IN  /\ Made("sync_weights") =>
              /\ layer'[l].W_param = layer[l].W_param
              /\ layer'[l].b_param = layer[l].b_param
              /\ layer'[l].W.data = layer'[l].W_param.data
              /\ layer'[l].b = layer'[l].b_param.data
        /\ (Made("step W_param") \/ Made("step b_param")) =>
              layer'[l].W = layer[l].W /\ layer'[l].b = layer[l].b
        /\ (Made("forward") /\ aborted' = "no") =>
              LET pre == layer'[l].activation.input_cache
                  W   == layer[l].W
              IN  /\ pre.rows = X.rows /\ pre.cols = W.cols
                  /\ \A i \in 0..(X.rows - 1), j \in 0..(W.cols - 1) :
                        pre.data[i * W.cols + j + 1] =
                           ProductEntry(X, W, i, j) + layer[l].b[j + 1]
                  /\ lastCall'.ret = layer'[l].activation.output_cache

\* C6: the constructor leaves W.data = W_param.data and b = b_param.data;
\* sync_weights makes them equal again, at the values the optimizer's steps
\* left in W_param and b_param; a step changes neither W nor b, and forward
\* computes from W and b, so from the pre-step values until sync_weights and
\* from the stepped ones after it.
C6_SyncWeights == C6_Constructed /\ [][C6_Step]_vars

\* C6's case: after a forward and a backward, both parameters of a layer were
\* stepped away from W and b, and sync_weights has just copied them back
C6_Witness ==
    /\ lastCall.op = "sync_weights" /\ aborted = "no"
    /\ \E l \in DOMAIN layer :
          /\ lastCall.layer = l
          /\ layer[l].activation.output_cache # EmptyTensor
          /\ {WKey(l), BKey(l)} \subseteq DOMAIN sgd.velocity
          /\ \E n \in 1..Len(layer[l].W.data) : sgd.velocity[WKey(l)][n] # 0
          /\ \E n \in 1..Len(layer[l].b) : sgd.velocity[BKey(l)][n] # 0
          /\ layer[l].W.data = layer[l].W_param.data
          /\ layer[l].b = layer[l].b_param.data

\* dOut through the activation's derivative at the cached input and output
\* (softmax: dOut itself), as a flat buffer
ThroughActivation(a, dOut) ==
    IF a.type = "SOFTMAX" THEN dOut.data
    ELSE [n \in 1..(dOut.rows * dOut.cols) |->
            FMul(dOut.data[n],
                 derivative(a, a.input_cache.data[n], a.output_cache.data[n]))]

SameGradients(L, N) ==
    /\ N.grad_W = L.grad_W /\ N.grad_b = L.grad_b
    /\ N.W_param.grad = L.W_param.grad /\ N.b_param.grad = L.b_param.grad

C7_Step ==
    (Made("backward") /\ aborted' = "no") =>
        LET l    == lastCall'.layer
            dOut == lastCall'.arg
            L    == layer[l]
            N    == layer'[l]
            X    == L.input_cache
            dA   == ThroughActivation(L.activation, dOut)
        IN  /\ N.grad_W.rows = X.cols /\ N.grad_W.cols = dOut.cols
            /\ \A i \in 0..(X.cols - 1), j \in 0..(dOut.cols - 1) :
                  N.grad_W.data[i * dOut.cols + j + 1] =
                     SeqSum([r \in 1..X.rows |->
                               FMul(X.data[(r - 1) * X.cols + i + 1],
                                    dA[(r - 1) * dOut.cols + j + 1])])
            /\ Len(N.grad_b) = dOut.cols
            /\ \A j \in 1..dOut.cols :
                  N.grad_b[j] =
                     SeqSum([r \in 1..dOut.rows |-> dA[(r - 1) * dOut.cols + j]])
            /\ N.W_param.grad = N.grad_W.data
            /\ N.b_param.grad = N.grad_b
            /\ (lastCall.op = "backward" /\ lastCall.layer = l /\ lastCall.arg = dOut)
                  => SameGradients(L, N)

\* C7: after a backward call grad_W is transpose(cached input) * dAct and
\* grad_b the column sums of dAct, dAct taken from this call's dOut alone,
\* whatever the buffers held before; W_param.grad and b_param.grad hold the
\* same; a second backward with the same dOut leaves all four as they are.
C7_BackwardOverwrites == [][C7_Step]_vars

\* C7's case: two backward calls in a row on a layer, with different dOut;
\* the gradients are not zero
C7_Witness ==
    /\ lastCall.op = "backward" /\ aborted = "no"
    /\ lastCall.prev.op = "backward" /\ lastCall.prev.layer = lastCall.layer
    /\ ~lastCall.prev.sameArg
    /\ \E l \in DOMAIN layer :
          /\ lastCall.layer = l
          /\ \E n \in 1..Len(layer[l].grad_W.data) : layer[l].grad_W.data[n] # 0
          /\ \E n \in 1..Len(layer[l].grad_b) : layer[l].grad_b[n] # 0

AllGradientsKept ==
    \A l \in DOMAIN layer : SameGradients(layer[l], layer'[l])

C8_Step ==
    LET l    == lastCall'.layer
        dOut == lastCall'.arg
        out  == layer[l].activation.output_cache
        matches   == dOut.rows = out.rows /\ dOut.cols = out.cols
        forwarded == layer[l].input_cache # EmptyTensor
    IN  /\ Made("backward") =>
              /\ IF forwarded /\ matches
                 THEN aborted' = "no"
                 ELSE aborted' # "no" /\ AllGradientsKept
              /\ (dOut.cols # layer[l].W.cols \/ dOut.rows # layer[l].input_cache.rows)
                    => aborted' \in {"DenseLayer::backward: dOut.cols == W.cols",
                                     "DenseLayer::backward: dOut.rows == input_cache.rows"}
        /\ Made("activation.backward") =>
              /\ (aborted' = "no") = matches
              /\ AllGradientsKept

\* C8: backward with a dOut whose shape is not that of the last forward's
\* output, or before any forward, ends in a failed assert and leaves grad_W,
\* grad_b, W_param.grad and b_param.grad as they were; DenseLayer.backward
\* asserts dOut.cols == W.cols and dOut.rows == input_cache.rows,
\* Activation.backward that dOut has the cached output's rows and cols.
C8_BackwardShapeRejected == [][C8_Step]_vars

\* C8's case: a layer that holds gradients from an accepted backward rejects
\* a backward whose dOut has another number of rows than its last forward
C8_Witness ==
    /\ lastCall.op = "backward" /\ aborted # "no"
    /\ \E l \in DOMAIN layer :
          /\ lastCall.layer = l
          /\ layer[l].input_cache # EmptyTensor
          /\ lastCall.arg.cols = layer[l].W.cols
          /\ lastCall.arg.rows # layer[l].input_cache.rows
          /\ \E n \in 1..Len(layer[l].grad_b) : layer[l].grad_b[n] # 0

InitLayerSpec ==
    /\ LayerInit /\ TensorIdle /\ OptInit /\ sgd.momentum > 0 /\ aborted = "no"

SpecLayer == InitLayerSpec /\ [][LayerNext]_vars

InitModelSpec == ModelInit /\ TensorIdle /\ OptIdle /\ aborted = "no"

SpecModel == InitModelSpec /\ [][ModelNext]_vars

InitTrainSpec == TrainInit /\ TensorIdle /\ OptIdle /\ aborted = "no"

SpecTrain == InitTrainSpec /\ [][TrainNext]_vars

(***************************************************************************)
(* Claims about the Model (checked under SpecModel).                       *)
(***************************************************************************)
\* the weights of a layer: the canonical buffers and the optimizer's view
Weights(L) == <<L.W, L.b, L.W_param.data, L.b_param.data>>

\* C1, on one step: a call of fit, whatever the model, the dataset and the
\* number of epochs, and whether or not it returns, leaves every layer's W,
\* b, W_param.data and b_param.data as they were, and makes no step call on
\* any optimizer (the optimizers and their call counts are untouched).
C1_Step ==
    Made("fit") =>
        /\ \A l \in DOMAIN layer : Weights(layer'[l]) = Weights(layer[l])
        /\ UNCHANGED optVars
        /\ model' = model
        /\ aborted' = "no" =>
              Len(SelectSeq(lastCall'.log, LAMBDA e : e = <<"optimizer_step">>))
                  = lastCall'.epochs * Len(lastCall'.X)

\* C1: Model.fit on its own does not mutate weights: after fit every
\* layer's W, b, W_param.data and b_param.data equal their values before the
\* call; the per-example update hook does nothing and no Optimizer.step runs.
C1_FitKeepsWeights == [][C1_Step]_vars

\* C1's case: a compiled two-layer model with loaded weights was fitted for
\* MaxEpochs epochs on two examples, fit returned, every layer holds a
\* non-zero weight gradient, and the weights are still the loaded ones.
C1_Witness ==
    /\ lastCall.op = "fit" /\ aborted = "no"
    /\ model.layers = <<"d1", "d2">> /\ model.loss_fn = "scce"
    /\ lastCall.epochs = MaxEpochs /\ Len(lastCall.X) = 2
    /\ \A l \in LayerIds :
          /\ \E n \in 1..Len(layer[l].grad_W.data) : layer[l].grad_W.data[n] # 0
          /\ layer[l].W_param.grad = layer[l].grad_W.data
          /\ layer[l].W.data = FileW(l) /\ layer[l].W_param.data = FileW(l)
          /\ layer[l].b = FileB(l) /\ layer[l].b_param.data = FileB(l)

\* the two compile asserts
CompileAsserts ==
    {"Model::fit: Model must be compiled before training",
     "Model::evaluate: Loss function not set"}

\* the call has a first forward to make: a layer, an example, an epoch
HasFirstForward ==
    /\ model.layers # <<>>
    /\ lastCall'.op \in {"fit", "evaluate"} => lastCall'.X # <<>>
    /\ lastCall'.op = "fit" => lastCall'.epochs > 0

\* C2, on one step: on a model never compiled, fit and evaluate end the
\* process at their assert with no forward run and no layer touched; on a
\* compiled model fit, evaluate and predict pass the asserts and, when
\* there is a layer and an example, run the first layer's forward first.
C2_Step ==
    /\ Made("fit") /\ model.loss_fn = "null" =>
          /\ aborted' = "Model::fit: Model must be compiled before training"
          /\ layer' = layer
          /\ lastCall'.log = <<>>
    /\ Made("evaluate") /\ model.loss_fn = "null" =>
          /\ aborted' = "Model::evaluate: Loss function not set"
          /\ layer' = layer
          /\ lastCall'.log = <<>>
    /\ (Made("fit") \/ Made("evaluate") \/ Made("predict")) /\ model.loss_fn # "null" =>
          /\ aborted' \notin CompileAsserts
          /\ HasFirstForward =>
                /\ lastCall'.log # <<>>
                /\ lastCall'.log[1] = <<"forward", model.layers[1]>>

\* C2: fit or evaluate on a model on which compile has never been called
\* stops at its assertion before any layer's forward runs, so no cache,
\* gradient or weight changes; once compile has been called, fit, evaluate
\* and predict all proceed.  (compile sets both pointers: they are null
\* together, exactly until the first compile.)
C2_CompileBeforeUse ==
    /\ []((model.loss_fn = "null") <=> (model.optimizer = "null"))
    /\ [][C2_Step]_vars

\* C2's case: fit was called with two examples and MaxEpochs epochs on a
\* two-layer model with loaded weights and never compiled; the assert ended
\* the process and the layers' caches are as constructed.
C2_Witness ==
    /\ lastCall.op = "fit" /\ nOps > 0
    /\ aborted = "Model::fit: Model must be compiled before training"
    /\ model = [NewModel EXCEPT !.layers = <<"d1", "d2">>]
    /\ Len(lastCall.X) = 2 /\ lastCall.epochs = MaxEpochs
    /\ \A l \in LayerIds : layer[l].W.data = FileW(l) /\ layer[l].input_cache = EmptyTensor

\* the three caches a forward call fills
Caches(L) == <<L.input_cache, L.activation.input_cache, L.activation.output_cache>>

\* the layer as constructed with L's weights and activation: nothing cached
Uncached(L) ==
    [L EXCEPT !.input_cache = EmptyTensor,
              !.activation.input_cache = EmptyTensor,
              !.activation.output_cache = EmptyTensor]

C14_Step ==
    LET l == lastCall'.layer
        L == layer[l]
        N == layer'[l]
    IN  /\ (Made("forward") /\ aborted' = "no") =>
              LET X == lastCall'.arg
                  Z == add_bias(matmul(X, L.W), L.b)
              IN  /\ N.input_cache = X
                  /\ N.activation.input_cache = Z
                  /\ N.activation.output_cache = lastCall'.ret
                  /\ lastCall'.ret = DenseForward(Uncached(L), X).out
                  /\ Caches(N) = Caches(DenseForward(Uncached(L), X).layer)
        /\ (~Made("forward") \/ aborted' # "no") =>
              \A k \in DOMAIN layer : Caches(layer'[k]) = Caches(layer[k])
        /\ (/\ Made("backward") /\ aborted' = "no"
            /\ lastCall.op = "forward" /\ lastCall.layer = l) =>
              LET X2   == lastCall.arg
                  dAct == ActivationBackward(
                              DenseForward(Uncached(L), X2).layer.activation,
                              lastCall'.arg)
              IN  /\ L.input_cache = X2
                  /\ N.grad_W = matmul(transpose(X2), dAct)

\* C14: a forward call that returns leaves the layer's cached input equal to
\* its argument and the activation's cached input and output equal to what
\* this call computed, whatever the caches held; no other call writes the
\* caches; so a backward that follows forward(X1), forward(X2) computes
\* grad_W = transpose(X2) * dAct, dAct from the caches of forward(X2) alone.
C14_BackwardUsesLastForward == [][C14_Step]_vars

\* C14's case: forward(X1), forward(X2) with X2 # X1, then a backward that
\* returned, on one layer; the input cached is X2 and grad_W is not zero
C14_Witness ==
    /\ lastCall.op = "backward" /\ aborted = "no"
    /\ lastCall.prev.op = "forward" /\ lastCall.prev.layer = lastCall.layer
    /\ lastCall.prev.overwrote
    /\ \E l \in DOMAIN layer :
          /\ lastCall.layer = l
          /\ layer[l].input_cache.rows = lastCall.arg.rows
          /\ \E n \in 1..Len(layer[l].grad_W.data) : layer[l].grad_W.data[n] # 0

\* the forward calls of one pass, in insertion order
ForwardChain(ls) == [k \in 1..Len(ls) |-> <<"forward", ls[k]>>]

\* the backward calls of one pass, last layer first
BackwardChain(ls) == [k \in 1..Len(ls) |-> <<"backward", ls[Len(ls) + 1 - k]>>]

\* what fit does for one example
ExampleLog(ls) ==
    ForwardChain(ls)
        \o <<(<<"loss_fn->forward">>), (<<"argmax">>), (<<"loss_fn->backward">>)>>
        \o BackwardChain(ls) \o <<(<<"optimizer_step">>)>>

\* the sequence e, count times over
Repeated(e, count) == [n \in 1..(count * Len(e)) |-> e[((n - 1) % Len(e)) + 1]]

IsPrefix(a, b) == Len(a) <= Len(b) /\ SubSeq(b, 1, Len(a)) = a

C15_Step ==
    /\ Made("fit") =>
          LET whole == Repeated(ExampleLog(model.layers),
                                lastCall'.epochs * Len(lastCall'.X))
          IN  /\ IsPrefix(lastCall'.log, whole)
              /\ aborted' = "no" => lastCall'.log = whole
    /\ Made("predict") =>
          /\ IsPrefix(lastCall'.log, ForwardChain(model.layers))
          /\ aborted' = "no" => lastCall'.log = ForwardChain(model.layers)

\* C15: the calls fit makes are, for each example of each epoch in turn, the
\* layers' forward in insertion order, the loss's forward, the accuracy
\* check, the loss's backward, every layer's backward once, last layer
\* first, and the update hook: epochs * (number of examples) such passes
\* whatever batch_size is, cut short only where a call ends the process;
\* predict makes the layers' forward calls in insertion order and no other.
C15_FitOrder == [][C15_Step]_vars

\* C15's case: fit with batch_size 2 returned from MaxEpochs epochs over two
\* examples on the two-layer model d1, d2
C15_Witness ==
    /\ lastCall.op = "fit" /\ aborted = "no"
    /\ lastCall.batch_size = 2 /\ lastCall.epochs = MaxEpochs /\ Len(lastCall.X) = 2
    /\ Len(lastCall.log) = MaxEpochs * 2 * 8
    /\ lastCall.log[1] = <<"forward", "d1">> /\ lastCall.log[6] = <<"backward", "d2">>
    /\ lastCall.log[7] = <<"backward", "d1">>

\* the Tensor invariant: the buffer holds rows * cols values
ShapeOK(t) == t.rows >= 0 /\ t.cols >= 0 /\ Len(t.data) = t.rows * t.cols

\* every Tensor of the layer is well-formed and each trainable buffer has
\* gradient and parameter buffers of its own shape
LayerShapes(L) ==
    /\ ShapeOK(L.W) /\ ShapeOK(L.grad_W) /\ ShapeOK(L.input_cache)
    /\ ShapeOK(L.activation.input_cache) /\ ShapeOK(L.activation.output_cache)
    /\ L.grad_W.rows = L.W.rows /\ L.grad_W.cols = L.W.cols
    /\ Len(L.b) = L.W.cols
    /\ Len(L.grad_b) = Len(L.b)
    /\ Len(L.W_param.data) = Len(L.W.data) /\ Len(L.W_param.grad) = Len(L.W.data)
    /\ Len(L.b_param.data) = Len(L.b) /\ Len(L.b_param.grad) = Len(L.b)

\* C16: in every reachable state every Tensor held or returned (operands,
\* results of matmul, transpose, add_bias, of the activation's and the
\* layer's forward and backward, of the loss's backward, the caches) has a
\* buffer of rows * cols values, and in every layer grad_W has the shape of
\* W, grad_b the length of b, and W_param.data, W_param.grad, b_param.data,
\* b_param.grad the lengths of W.data and b.
C16_ShapeConsistency ==
    /\ ShapeOK(tA) /\ ShapeOK(tB) /\ ShapeOK(tOut.val)
    /\ ShapeOK(act.input_cache) /\ ShapeOK(act.output_cache)
    /\ ShapeOK(lastCall.arg) /\ ShapeOK(lastCall.ret)
    /\ \A l \in DOMAIN layer : LayerShapes(layer[l])

\* C16's case: a layer went through forward on two rows, backward, the
\* optimizer's step on W_param and sync_weights; its gradient is not zero
\* and its weights are no longer the constructed ones
C16_Witness ==
    /\ lastCall.op = "sync_weights" /\ lastCall.prev.op = "step W_param"
    /\ aborted = "no"
    /\ \E l \in DOMAIN layer :
          /\ lastCall.layer = l
          /\ layer[l].input_cache.rows = 2
          /\ \E n \in 1..Len(layer[l].grad_W.data) : layer[l].grad_W.data[n] # 0
          /\ \E n \in 1..Len(layer[l].grad_b) : layer[l].grad_b[n] # 0
          /\ layer[l].W.data # Tensor(layer[l].W.rows, layer[l].W.cols).data
          /\ layer[l].W.data = layer[l].W_param.data

\* the kinds of Loss that read the dense target
DenseLossIds == {"mse", "bce", "cce"}

NullDenseTarget == "SIGSEGV: Loss::forward reads *y_true_dense, which is null"

\* the events of a backward pass
BackwardEvents == {"loss_fn->backward", "backward", "optimizer_step"}

C17_Step ==
    (/\ Made("fit") \/ Made("evaluate")
     /\ model.loss_fn # "null"
     /\ lastCall'.X # <<>>
     /\ lastCall'.op = "fit" => lastCall'.epochs > 0) =>
        LET log   == lastCall'.log
            first == ForwardChain(model.layers) \o <<(<<"loss_fn->forward">>)>>
        IN  IF model.loss_fn \in DenseLossIds
            THEN /\ aborted' # "no"
                 /\ IsPrefix(log, first)
                 /\ (log = first) <=> (aborted' = NullDenseTarget)
                 /\ \A n \in 1..Len(log) : log[n][1] \notin BackwardEvents
                 /\ AllGradientsKept
                 /\ lastCall'.printed = <<>>
            ELSE /\ aborted' # NullDenseTarget
                 /\ IsPrefix(first, log) \/ aborted' # "no"

\* C17: fit and evaluate hand the loss the sparse labels and no dense
\* target.  With a loss of kind mean-squared-error, binary cross-entropy or
\* categorical cross-entropy the call never returns: when the first
\* example's forward chain comes through, the loss's forward reads the null
\* dense target and the process ends there, before any backward pass, with
\* no gradient written and no epoch reported.  With the sparse categorical
\* kind the null target is never read.
C17_OnlySparseLossUsable == [][C17_Step]_vars

\* C17's case: fit on the two-layer model d1, d2 with loaded weights,
\* compiled with the binary cross-entropy loss, ended at the null dense
\* target right after the first example's forward chain
C17_Witness ==
    /\ lastCall.op = "fit" /\ aborted = NullDenseTarget
    /\ model.layers = <<"d1", "d2">> /\ model.loss_fn = "bce"
    /\ Len(lastCall.X) = 2 /\ lastCall.epochs = MaxEpochs
    /\ lastCall.log = <<(<<"forward", "d1">>), (<<"forward", "d2">>),
                        (<<"loss_fn->forward">>)>>
    /\ \A l \in LayerIds :
          /\ layer[l].W.data = FileW(l)
          /\ layer[l].input_cache # EmptyTensor
          /\ \A n \in 1..Len(layer[l].grad_W.data) : layer[l].grad_W.data[n] = 0

(***************************************************************************)
(* Claims about the training run (checked under SpecTrain).                *)
(***************************************************************************)
\* the model of the training run, built and compiled
TrainModel == [layers |-> <<"t1", "t2">>, loss_fn |-> "bce", optimizer |-> "sgd"]

\* the accuracy printed for an epoch, <<correct, examples>>, is 90% or more
Accurate(a) == a[2] > 0 /\ 10 * a[1] >= 9 * a[2]

\* C13: the two-layer model 2 -> 3 -> 1 (ReLU then sigmoid), compiled with
\* binary cross-entropy and SGD and trained on the fixed separable points,
\* reaches at least 90% training accuracy within a bounded number of
\* iterations: once fit has been called on it for MaxEpochs epochs, or
\* evaluate after that, the call has returned and the accuracy it reports
\* for some epoch is at least 90%.
C13_TrainingConverges ==
    (/\ model = TrainModel
     /\ \A l \in TrainLayerIds : layer[l].W.data = FileW(l)
     /\ lastCall.op = "fit" /\ lastCall.epochs = MaxEpochs) =>
        /\ aborted = "no"
        /\ \E e \in 1..Len(lastCall.printed) : Accurate(lastCall.printed[e])

(***************************************************************************)
(* Claims about the losses (checked under SpecLoss).                       *)
(***************************************************************************)
\* one_hot(t)(j)
OneHot(t, j) == IF j = t THEN Scale ELSE 0

\* C11: sparse categorical cross-entropy backward returns a Tensor of the
\* prediction's shape whose entry (i, j) is (pred(i, j) - one_hot(y_i)(j)) / rows:
\* 1.0 is subtracted at the true-class column of each row and nowhere else,
\* and every entry is divided by rows.  The code multiplies by 1.0f / rows:
\* the two agree exactly where 1 / rows is a multiple of the resolution, and
\* elsewhere to the tolerance that the rounding of 1 / rows leaves
\* (|g - x / rows| <= |x| / Scale + 1 step).  The prediction and the labels
\* are left as they were.
C11_SparseBackward ==
    (tOut.op = "loss.backward" /\ aborted = "no") =>
        /\ tOut.val.rows = tA.rows /\ tOut.val.cols = tA.cols
        /\ Len(tOut.val.data) = tA.rows * tA.cols
        /\ \A i \in 0..(tA.rows - 1) : \A j \in 0..(tA.cols - 1) :
              LET x == At(tA, i, j) - OneHot(tY[i + 1], j)
                  g == At(tOut.val, i, j)
              IN  IF Scale % tA.rows = 0
                  THEN g = FDiv(x, tA.rows * Scale)
                  ELSE Abs(tA.rows * g - x) * Scale <= tA.rows * (Abs(x) + Scale)

\* C11's case: the backward of a 2 x 2 prediction whose rows have different
\* classes has returned.
C11_Witness ==
    /\ tOut.op = "loss.backward" /\ aborted = "no"
    /\ tA.rows = 2 /\ tA.cols = 2
    /\ tA.data = <<25, -Scale, -Scale, 25>>
    /\ tY = <<1, 0>>
    /\ tOut.val.data = <<12, -Scale, -Scale, 12>>

(***************************************************************************)
(* Claims about the Activation (checked under SpecAct).                    *)
(***************************************************************************)
\* C12, in a state: when backward has returned, the caches are those of the
\* most recent forward (empty when there was none); for SOFTMAX what it
\* returned is dOut itself, for every other kind dOut(i, j) times the
\* derivative at the cached input and output.
C12_State ==
    (tOut.op = "activation.backward" /\ aborted = "no") =>
        /\ act.input_cache = tA
        /\ act.output_cache =
              IF tA = EmptyTensor THEN EmptyTensor ELSE ActivationForward(act, tA).out
        /\ IF act.type = "SOFTMAX" THEN tOut.val = tB
           ELSE /\ tOut.val.rows = tB.rows /\ tOut.val.cols = tB.cols
                /\ Len(tOut.val.data) = tB.rows * tB.cols
                /\ \A n \in 1..(tB.rows * tB.cols) :
                      tOut.val.data[n] =
                          FMul(tB.data[n],
                               derivative(act, act.input_cache.data[n],
                                          act.output_cache.data[n]))

\* C12, on one step: a backward call, returning or not, leaves the
\* Activation, its two caches included, as it was.
C12_Step == tOut'.op = "activation.backward" => act' = act

\* C12: for the softmax kind Activation.backward returns dOut unchanged
\* whatever the caches hold; for every other kind it returns dOut(i, j)
\* multiplied by the derivative at the cached input and output of the most
\* recent forward; backward never modifies the caches.
C12_ActivationBackward == [](C12_State) /\ [][C12_Step]_vars

\* C12's case: a RELU's backward has returned after a forward of a 2 x 2
\* input with one positive entry: only that entry's gradient passes.
C12_Witness ==
    /\ tOut.op = "activation.backward" /\ aborted = "no"
    /\ act.type = "RELU"
    /\ tA = [rows |-> 2, cols |-> 2, data |-> <<25, -Scale, -Scale, -Scale>>]
    /\ tB.data = <<Scale, -20, 5, 30>>
    /\ tOut.val.data = <<Scale, 0, 0, 0>>

(***************************************************************************)
(* Claims about the Tensor algebra (checked under SpecTensor).             *)
(***************************************************************************)
\* the first column of row 0 that holds row 0's maximum
FirstMaxOfRowZero(A) ==
    CHOOSE j \in 0..(A.cols - 1) :
        /\ \A q \in 0..(A.cols - 1) : A.data[q + 1] <= A.data[j + 1]
        /\ \A q \in 0..(j - 1) : A.data[q + 1] < A.data[j + 1]

\* C9: argmax returns the first column holding the maximum of row 0: of the
\* whole Tensor when it has one row, and of row 0 alone, whatever the other
\* rows hold, when it has several.
C9_ArgmaxScansRowZero ==
    tOut.op = "argmax" => tOut.idx = FirstMaxOfRowZero(tA)

C10_State ==
    /\ tOut.op = "matmul" =>
          /\ tA.cols = tB.rows
          /\ tOut.val.rows = tA.rows /\ tOut.val.cols = tB.cols
          /\ Len(tOut.val.data) = tA.rows * tB.cols
          /\ \A i \in 0..(tA.rows - 1), j \in 0..(tB.cols - 1) :
                tOut.val.data[i * tB.cols + j + 1] = ProductEntry(tA, tB, i, j)
    /\ tOut.op = "transpose" =>
          /\ tOut.val.rows = tA.cols /\ tOut.val.cols = tA.rows
          /\ Len(tOut.val.data) = tA.rows * tA.cols
          /\ \A i \in 0..(tA.rows - 1), j \in 0..(tA.cols - 1) :
                tOut.val.data[j * tA.rows + i + 1] = tA.data[i * tA.cols + j + 1]
    /\ tOut.op = "matmulT" =>
          /\ tA.cols = tB.rows
          /\ tOut.val.rows = tB.cols /\ tOut.val.cols = tA.rows
          /\ \A i \in 0..(tA.rows - 1), j \in 0..(tB.cols - 1) :
                tOut.val.data[j * tA.rows + i + 1] = ProductEntry(tA, tB, i, j)
    /\ aborted = "matmul: A.cols == B.rows" => tA.cols # tB.rows /\ tOut.op = "none"

C10_Step ==
    /\ (CallMatmul \/ CallMatmulOfTransposes \/ CallTranspose) => (tA' = tA /\ tB' = tB)
    /\ (tA.cols # tB.rows /\ (CallMatmul \/ CallMatmulOfTransposes)) =>
          (aborted' = "matmul: A.cols == B.rows" /\ tOut' = tOut)

\* C10: matmul(A, B) has shape (A.rows, B.cols) and entry (i,j) the sum over k
\* of A(i,k)*B(k,j); transpose swaps the dimensions and the indices; the
\* transpose of matmul(A, B) is matmul(transpose(B), transpose(A)); no call
\* changes its operands; matmul with A.cols # B.rows ends in the failed assert.
C10_MatmulTranspose == [](C10_State) /\ [][C10_Step]_vars

\* C10's case: a product of non-square operands with an inner dimension of 2,
\* computed from the transposes, that is not a constant matrix
C10_Witness ==
    /\ tOut.op = "matmulT"
    /\ tA.cols = 2 /\ tA.rows # tB.cols
    /\ \E n \in 1..Len(tOut.val.data) : tOut.val.data[n] # tOut.val.data[1]

====
